---- MODULE Spec2Model ----
(***************************************************************************)
(* Model of the score search handler of osu-score (src/server.js):         *)
(* POST /api/search, getAccessToken and normalizeAndFilter.                *)
(*                                                                         *)
(* One behaviour is one search request.  Every await of the handler is a   *)
(* step boundary; the upstream answer of each call is the environment's    *)
(* choice.                                                                 *)
(*                                                                         *)
(* JavaScript values are encoded as follows.                               *)
(*   created_at / ended_at : a natural number, 0 standing for an absent    *)
(*       (undefined) field, n > 0 for a valid timestamp.                   *)
(*   pp, min_pp, max_pp    : [t, v] with t one of                          *)
(*       "absent" (undefined), "num" (the number v), "numstr" (the string  *)
(*       that spells the number v), "text" (a non-numeric string such as   *)
(*       "abc"), "nan" (the number NaN).                                   *)
(*   mods of a score       : [t, v] with t one of "absent", "strs" (list   *)
(*       of acronym strings v), "objs" (list of objects {acronym: v[i]}).  *)
(*   beatmap, beatmapset, user : [id, tag, set]; tag = "none" is an absent *)
(*       field, "orig" an entity embedded by the score feed, "fetched" an  *)
(*       entity returned by a lookup; set is the id of the beatmapset a    *)
(*       beatmap embeds (0 for none).                                      *)
(***************************************************************************)
EXTENDS Integers, Sequences, FiniteSets, TLC

VARIABLES pc, req, scores, cursor, fetchedCount, elapsed, feedLeft,
          finalScores, sliced, sentCursors, gotCursors, bmSent, userSent,
          upstreamCalls, response, nResponses, faults

vars == <<pc, req, scores, cursor, fetchedCount, elapsed, feedLeft,
          finalScores, sliced, sentCursors, gotCursors, bmSent, userSent,
          upstreamCalls, response, nResponses, faults>>

(***************************************************************************)
(* Bounds of the model.                                                    *)
(***************************************************************************)
\* number of ordinary (small) pages the upstream feed holds
MaxPages == 2
\* size of one page of the endless never-matching feed
BulkSize == 5000
\* time one slow upstream call takes, in ms
ClockStep == 13000
\* number of records of the one wide page (more ids than one lookup carries)
WideLen == 51

(***************************************************************************)
(* Program constants.                                                      *)
(***************************************************************************)
maxFetch == 10000
timeLimit == 25000
defaultLimit == 10
lookupCap == 50

Min(a, b) == IF a < b THEN a ELSE b

(***************************************************************************)
(* JavaScript value helpers.                                               *)
(***************************************************************************)
AbsentNum == [t |-> "absent", v |-> 0]
Num(n) == [t |-> "num", v |-> n]
NumStr(n) == [t |-> "numstr", v |-> n]
Text == [t |-> "text", v |-> 0]
NaN == [t |-> "nan", v |-> 0]

\* ToBoolean: undefined, 0 and NaN are falsy; every non-empty string is truthy
Truthy(x) ==
    \/ x.t = "num" /\ x.v # 0
    \/ x.t = "numstr"
    \/ x.t = "text"

\* parseFloat: a number or a numeric string gives the number, anything else NaN
parseFloat(x) ==
    IF x.t \in {"num", "numstr"} THEN Num(x.v) ELSE NaN

\* a < b on numbers: false as soon as one side is NaN (or undefined -> NaN)
Less(a, b) == a.t = "num" /\ b.t = "num" /\ a.v < b.v

NoMods == [t |-> "absent", v |-> <<>>]
Strs(s) == [t |-> "strs", v |-> s]
Objs(s) == [t |-> "objs", v |-> s]

NoEnt == [id |-> 0, tag |-> "none", set |-> 0]
Has(e) == e.tag # "none"

Range(s) == {s[i] : i \in 1..Len(s)}

(***************************************************************************)
(* normalizeAndFilter                                                      *)
(***************************************************************************)
\* the map callback: timestamp fallback, mod-list shape, pp coercion
Normalize(score) ==
    [score EXCEPT
        !.created_at = IF score.created_at = 0 /\ score.ended_at # 0
                       THEN score.ended_at ELSE @,
        !.mods = IF @.t = "absent" THEN Strs(<<>>)
                 ELSE IF Len(@.v) > 0 /\ @.t = "objs" THEN Strs(@.v)
                 ELSE @,
        !.pp = IF Truthy(@) THEN parseFloat(@) ELSE Num(0)]

\* the filter callback
Passes(score, min_pp, max_pp, mods) ==
    /\ ~(Truthy(min_pp) /\ Less(score.pp, parseFloat(min_pp)))
    /\ ~(Truthy(max_pp) /\ Less(parseFloat(max_pp), score.pp))
    /\ (Len(mods) > 0 => \A i \in 1..Len(mods) : mods[i] \in Range(score.mods.v))

normalizeAndFilter(list, min_pp, max_pp, mods) ==
    LET mapped == [i \in 1..Len(list) |-> Normalize(list[i])]
        keep(s) == Passes(s, min_pp, max_pp, mods)
    IN  SelectSeq(mapped, keep)

(***************************************************************************)
(* scores.sort((a, b) => new Date(b.created_at) - new Date(a.created_at))  *)
(* and slice(0, targetLimit)                                               *)
(***************************************************************************)
\* new Date(undefined) is an Invalid Date: the comparator then returns NaN
ValidDate(score) == score.created_at # 0

\* The stable descending order: a record goes behind every record with a
\* later date and behind the earlier records of the list with the same date.
\* (The singleton sets only bind a value that is used several times.)
StableSortDesc(list) ==
    CHOOSE sorted \in
        { [k \in 1..Len(l) |-> l[CHOOSE i \in 1..Len(l) : pos[i] = k]] :
            <<l, pos>> \in
                { <<v, [i \in 1..Len(v) |->
                          1 + Cardinality({j \in 1..Len(v) :
                                              v[j].created_at > v[i].created_at})
                            + Cardinality({j \in 1..(i - 1) :
                                              v[j].created_at = v[i].created_at})]>> :
                    v \in {list} } } : TRUE

RECURSIVE PermsOf(_, _)
PermsOf(list, idx) ==
    IF idx = {} THEN {<<>>}
    ELSE UNION {{<<list[i]>> \o p : p \in PermsOf(list, idx \ {i})} : i \in idx}

\* The results Array.prototype.sort may give.  With valid dates the comparator
\* is consistent and the sort is stable; a comparator that returns NaN is not
\* a consistent comparison function and the order is implementation-defined.
SortOutcomes(list) ==
    IF Len(list) <= 1 \/ \A i \in 1..Len(list) : ValidDate(list[i])
    THEN {StableSortDesc(list)}
    ELSE PermsOf(list, 1..Len(list))

\* const targetLimit = limit ? parseInt(limit) : 10   (limit 0: absent or 0)
targetLimit(r) == IF r.limit # 0 THEN r.limit ELSE defaultLimit

Slice(list, n) == SubSeq(list, 1, Min(n, Len(list)))

(***************************************************************************)
(* Enrichment of the final scores                                          *)
(***************************************************************************)
\* [...new Set(ids)]: first occurrences, in order
Dedup(ids) ==
    CHOOSE unique \in
        { [k \in 1..Cardinality(firsts) |->
              v[CHOOSE i \in firsts : Cardinality({j \in firsts : j <= i}) = k]] :
            <<v, firsts>> \in
                { <<w, {i \in 1..Len(w) : \A j \in 1..(i - 1) : w[j] # w[i]}>> :
                    w \in {ids} } } : TRUE

LacksBeatmap(s) == ~Has(s.beatmap)
LacksUser(s) == ~Has(s.user)

\* variant: the beatmap ids of all records, those with a beatmap included
beatmapIdsUnfiltered(fs) == Dedup([i \in 1..Len(fs) |-> fs[i].beatmap_id])

beatmapIds(fs) ==
    CHOOSE ids \in
        { Dedup([i \in 1..Len(lacking) |-> lacking[i].beatmap_id]) :
            lacking \in {SelectSeq(fs, LacksBeatmap)} } : TRUE

userIds(fs) ==
    CHOOSE ids \in
        { Dedup([i \in 1..Len(lacking) |-> lacking[i].user_id]) :
            lacking \in {SelectSeq(fs, LacksUser)} } : TRUE

\* ids.slice(0, 50): the ids one lookup request carries
LookupIds(ids) == Slice(ids, lookupCap)

\* fetched.find(e => e.id === id): the first match, NoEnt for undefined
Find(ents, id) ==
    IF \E i \in 1..Len(ents) : ents[i].id = id
    THEN ents[CHOOSE i \in 1..Len(ents) :
                 /\ ents[i].id = id
                 /\ \A j \in 1..(i - 1) : ents[j].id # id]
    ELSE NoEnt

\* variant: the beatmapset of the fetched beatmap replaces the record's own
AttachBeatmapOverwrite(score, fetchedBeatmaps) ==
    IF Has(score.beatmap) THEN score
    ELSE LET bm == Find(fetchedBeatmaps, score.beatmap_id)
         IN  IF ~Has(bm) THEN score
             ELSE [score EXCEPT
                     !.beatmap = bm,
                     !.beatmapset = IF bm.set # 0
                                    THEN [id |-> bm.set, tag |-> bm.tag, set |-> 0]
                                    ELSE @]

AttachBeatmap(score, fetchedBeatmaps) ==
    IF Has(score.beatmap) THEN score
    ELSE LET bm == Find(fetchedBeatmaps, score.beatmap_id)
         IN  IF ~Has(bm) THEN score
             ELSE [score EXCEPT
                     !.beatmap = bm,
                     !.beatmapset = IF bm.set # 0 /\ ~Has(@)
                                    THEN [id |-> bm.set, tag |-> bm.tag, set |-> 0]
                                    ELSE @]

AttachUser(score, fetchedUsers) ==
    IF Has(score.user) THEN score
    ELSE [score EXCEPT !.user = Find(fetchedUsers, score.user_id)]

\* variant: a failed beatmap lookup loses the records
EnrichBeatmapsLossy(fs, resp) ==
    IF resp.ok THEN [i \in 1..Len(fs) |-> AttachBeatmap(fs[i], resp.ents)] ELSE <<>>

\* the try block of the beatmap lookup; a failed lookup is caught and logged
EnrichBeatmaps(fs, resp) ==
    IF resp.ok THEN [i \in 1..Len(fs) |-> AttachBeatmap(fs[i], resp.ents)] ELSE fs

\* the try block of the user lookup
EnrichUsers(fs, resp) ==
    IF resp.ok THEN [i \in 1..Len(fs) |-> AttachUser(fs[i], resp.ents)] ELSE fs

(***************************************************************************)
(* The inputs: requests, upstream score records, pages and responses.      *)
(***************************************************************************)
Score(id, ca, ea, mods, pp, bid, uid, bm, bs, u) ==
    [id |-> id, created_at |-> ca, ended_at |-> ea, mods |-> mods, pp |-> pp,
     beatmap_id |-> bid, user_id |-> uid, beatmap |-> bm, beatmapset |-> bs,
     user |-> u]

Orig(id, set) == [id |-> id, tag |-> "orig", set |-> set]
Fetched(id, set) == [id |-> id, tag |-> "fetched", set |-> set]

\* matches 200..300 + HD,DT; structured mods; lacks beatmap, beatmapset, user
rA == Score(1, 30, 0, Objs(<<"HD", "DT">>), Num(250), 1, 1, NoEnt, NoEnt, NoEnt)
\* only ended_at; pp a numeric string; beatmap 1 and user embedded by the feed
rB == Score(2, 0, 40, Strs(<<"HD", "DT", "HR">>), NumStr(300), 1, 2,
            Orig(1, 0), NoEnt, Orig(2, 0))
\* no mods, low pp; beatmapset embedded but beatmap and user missing
rC == Score(3, 20, 0, NoMods, Num(5), 2, 1, NoEnt, Orig(9, 0), NoEnt)
\* neither timestamp; pp a non-numeric string; nothing to enrich
rD == Score(4, 0, 0, Strs(<<"HD">>), Text, 3, 3, Orig(3, 8), Orig(8, 0), Orig(3, 0))
\* both timestamps; pp absent
rE == Score(5, 10, 15, Objs(<<"DT", "HD">>), AbsentNum, 2, 2, NoEnt, NoEnt, Orig(2, 0))
\* pp above the range
rF == Score(6, 50, 0, Strs(<<"HD", "DT">>), Num(400), 4, 4, Orig(4, 0), NoEnt, NoEnt)

RawScores == {rA, rB, rC, rD, rE, rF}

SmallPages == {<<rC, rA>>, <<rB>>, <<rD>>, <<rE, rF>>}

\* a page whose records need more distinct beatmaps and users than one
\* lookup request carries
WidePage ==
    [i \in 1..WideLen |->
        Score(100 + i, 100 + i, 0, Strs(<<"HD", "DT">>), Num(250),
              10 + i, 10 + i, NoEnt, NoEnt, NoEnt)]

\* one record of the endless feed
junk == Score(9, 5, 0, Strs(<<"NM">>), Num(1000), 5, 5, Orig(5, 0), NoEnt, Orig(5, 0))
BulkPage == [i \in 1..BulkSize |-> junk]

Req(u, lo, hi, mods, limit, ok, type, fails) ==
    [username |-> u, min_pp |-> lo, max_pp |-> hi, mods |-> mods, limit |-> limit,
     credentials |-> ok, type |-> type, include_fails |-> fails]

\* username: "absent", "blank" (only whitespace), "numeric" or "name"
Requests ==
    { Req("absent", AbsentNum, AbsentNum, <<"DT">>, 0, TRUE, "best", FALSE),
      Req("absent", Num(200), Num(300), <<"HD", "DT">>, 2, TRUE, "best", FALSE),
      Req("blank", NumStr(200), AbsentNum, <<"HD">>, 1, TRUE, "best", FALSE),
      Req("absent", AbsentNum, Num(0), <<>>, 3, TRUE, "best", FALSE),
      Req("absent", Num(200), Num(300), <<"HD", "DT">>, WideLen + 9, TRUE, "best", FALSE),
      Req("name", AbsentNum, AbsentNum, <<>>, 0, TRUE, "best", FALSE),
      Req("name", Num(200), Num(300), <<"HD", "DT">>, WideLen + 9, TRUE, "recent", TRUE),
      Req("numeric", Num(200), AbsentNum, <<>>, 2, TRUE, "recent", FALSE),
      Req("name", AbsentNum, AbsentNum, <<>>, 0, FALSE, "best", FALSE),
      Req("absent", AbsentNum, AbsentNum, <<>>, 1, FALSE, "best", FALSE) }

NoReq == Req("absent", AbsentNum, AbsentNum, <<>>, 0, FALSE, "best", FALSE)

\* username && username.trim() !== ''
UserMode(r) == r.username \in {"numeric", "name"}

(***************************************************************************)
(* Upstream answers.                                                       *)
(***************************************************************************)
PageResp(shape, page, cs, c, delay) ==
    [shape |-> shape, page |-> page, cursor_string |-> cs, cursor |-> c,
     delay |-> delay]

\* The answers GET /api/v2/scores may give to the request in flight.
\* shape "wrapped" is {scores, cursor_string, cursor}, "array" a bare list,
\* "other" a body with no scores field that is no list (null, {}),
\* "badscores" a body whose scores field is an object and no list.
\* The k-th answer's continuation token is k.  The feed holds MaxPages
\* ordinary pages; the wide page comes first or not at all; the endless feed
\* of never-matching pages starts before the ordinary pages or not at all
\* and at most one ordinary page interrupts it.
GlobalResponses ==
    LET tok == Len(sentCursors)
    IN  { PageResp("error", <<>>, 0, FALSE, 0),
          PageResp("other", <<>>, 0, FALSE, 0),
          PageResp("badscores", <<>>, tok, TRUE, 0),
          PageResp("wrapped", <<>>, 0, FALSE, 0) }
        \cup (IF feedLeft > 0
              THEN {PageResp("wrapped", p, tok, TRUE, 0) : p \in SmallPages}
                   \cup { PageResp("wrapped", <<rC, rA>>, 0, FALSE, 0),
                          PageResp("wrapped", <<rB>>, 0, TRUE, 0),
                          PageResp("wrapped", <<rC, rA>>, tok, TRUE, ClockStep),
                          PageResp("array", <<rC, rA>>, 0, FALSE, 0) }
              ELSE {})
        \cup (IF feedLeft > 0 /\ Len(sentCursors) = 1
              THEN {PageResp("wrapped", WidePage, 0, FALSE, 0)}
              ELSE {})
        \cup (IF /\ \/ feedLeft = MaxPages
                    \/ feedLeft = MaxPages - 1 /\ fetchedCount >= BulkSize
                 /\ fetchedCount < maxFetch + BulkSize
                 /\ normalizeAndFilter(<<junk>>, req.min_pp, req.max_pp, req.mods) = <<>>
              THEN {PageResp("wrapped", BulkPage, tok, TRUE, 0)}
              ELSE {})

\* The answers GET /users/{id}/scores/{endpoint} may give: a failed request, a body
\* that is no list, or a list of scores.
UserScoresResponses ==
    { [shape |-> "error", page |-> <<>>], [shape |-> "other", page |-> <<>>],
      [shape |-> "array", page |-> <<>>], [shape |-> "array", page |-> WidePage],
      [shape |-> "array", page |-> <<rC, rA, rB>>] }
    \cup {[shape |-> "array", page |-> p] : p \in SmallPages}

\* The answers of a lookup of ids: a failed request, no entity, every entity,
\* the first entity only.
LookupResponses(ids) ==
    { [ok |-> FALSE, ents |-> <<>>],
      [ok |-> TRUE, ents |-> <<>>],
      [ok |-> TRUE, ents |-> [i \in 1..Len(ids) |-> Fetched(ids[i], 0)]],
      [ok |-> TRUE, ents |-> <<Fetched(ids[1], 0)>>] }

Last(s) == s[Len(s)]

\* a beatmap of the answer may embed its beatmapset
BeatmapResponses ==
    IF bmSent = <<>> THEN {}
    ELSE LookupResponses(Last(bmSent))
         \cup {[ok |-> TRUE,
                ents |-> [i \in 1..Len(Last(bmSent)) |->
                             Fetched(Last(bmSent)[i], Last(bmSent)[i] + 100)]]}

UserResponses == IF userSent = <<>> THEN {} ELSE LookupResponses(Last(userSent))

(***************************************************************************)
(* The handler of POST /api/search                                         *)
(***************************************************************************)
NoResponse == [status |-> 0, body |-> <<>>]

AuthMessage == "Authentication failed. Check your Client ID and Client Secret."
RequestMessage == "Request failed with status code 500"
TypeMessage == "scores.map is not a function"

\* variant: every failure answers 500
ErrorStatusAlways500(message) == 500

\* error.message.includes('Authentication failed') ? 401 : 500
ErrorStatus(message) == IF message = AuthMessage THEN 401 ELSE 500

Init ==
    /\ pc = "idle"
    /\ req = NoReq
    /\ scores = <<>>
    /\ cursor = 0
    /\ fetchedCount = 0
    /\ elapsed = 0
    /\ feedLeft = MaxPages
    /\ finalScores = <<>>
    /\ sliced = <<>>
    /\ sentCursors = <<>>
    /\ gotCursors = <<>>
    /\ bmSent = <<>>
    /\ userSent = <<>>
    /\ upstreamCalls = <<>>
    /\ response = NoResponse
    /\ nResponses = 0
    /\ faults = {}

\* res.status(status).json(...) or res.json(body)
Respond(status, body) ==
    /\ pc' = "done"
    /\ response' = [status |-> status, body |-> body]
    /\ nResponses' = nResponses + 1

\* variant: the loop without the fetched-record ceiling
LoopContinuesNoCeiling(sc, fc, el) ==
    /\ Len(sc) < targetLimit(req)
    /\ ~(el > timeLimit)

\* the while condition and the budget check at the top of the loop body
LoopContinues(sc, fc, el) ==
    /\ Len(sc) < targetLimit(req)
    /\ fc < maxFetch
    /\ ~(el > timeLimit)

\* after the scores are fetched: sort, truncate, and start the enrichment of
\* the truncated list (up to the first lookup request or the response)
Finish(list) ==
    \E sorted \in UNION {SortOutcomes(l) : l \in {list}} :
    \E fs \in {Slice(sorted, targetLimit(req))} :
    \E bids \in {beatmapIds(fs)}, uids \in {userIds(fs)} :
        LET needsBeatmap == \E i \in 1..Len(fs) : LacksBeatmap(fs[i])
            needsUser == \E i \in 1..Len(fs) : LacksUser(fs[i])
        IN  /\ scores' = sorted
            /\ finalScores' = fs
            /\ sliced' = fs
            /\ IF (needsBeatmap \/ needsUser) /\ Len(bids) > 0
               THEN /\ pc' = "beatmaps"
                    /\ bmSent' = Append(bmSent, LookupIds(bids))
                    /\ upstreamCalls' = Append(upstreamCalls, "beatmaps")
                    /\ UNCHANGED <<userSent, response, nResponses>>
               ELSE IF (needsBeatmap \/ needsUser) /\ Len(uids) > 0
               THEN /\ pc' = "users"
                    /\ userSent' = Append(userSent, LookupIds(uids))
                    /\ upstreamCalls' = Append(upstreamCalls, "users")
                    /\ UNCHANGED <<bmSent, response, nResponses>>
               ELSE /\ Respond(200, fs)
                    /\ UNCHANGED <<bmSent, userSent, upstreamCalls>>

\* the request arrives: the credentials check, then the credential exchange
Receive(r) ==
    /\ pc = "idle"
    /\ req' = r
    /\ IF ~r.credentials
       THEN /\ Respond(400, <<>>)
            /\ UNCHANGED upstreamCalls
       ELSE /\ pc' = "token"
            /\ upstreamCalls' = Append(upstreamCalls, "oauth/token")
            /\ UNCHANGED <<response, nResponses>>
    /\ UNCHANGED <<scores, cursor, fetchedCount, elapsed, feedLeft, finalScores,
                   sliced, sentCursors, gotCursors, bmSent, userSent, faults>>

\* getAccessToken throws: the outer catch answers
TokenFails ==
    /\ pc = "token"
    /\ faults' = faults \cup {"credentials"}
    /\ Respond(ErrorStatus(AuthMessage), <<>>)
    /\ UNCHANGED <<req, scores, cursor, fetchedCount, elapsed, feedLeft,
                   finalScores, sliced, sentCursors, gotCursors, bmSent, userSent,
                   upstreamCalls>>

\* the endpoint and parameters of the user's score list
ScoresCall(r) ==
    IF r.type = "recent"
    THEN IF r.include_fails THEN "scores/recent?include_fails=1" ELSE "scores/recent"
    ELSE "scores/best"

\* getAccessToken returns: user mode resolves the name or fetches the scores,
\* global mode enters the pagination loop
TokenArrives ==
    /\ pc = "token"
    /\ IF UserMode(req)
       THEN /\ IF req.username = "name"
               THEN /\ pc' = "resolve"
                    /\ upstreamCalls' = Append(upstreamCalls, "users/@name")
               ELSE /\ pc' = "userScores"
                    /\ upstreamCalls' = Append(upstreamCalls, ScoresCall(req))
            /\ UNCHANGED <<scores, finalScores, sliced, sentCursors, bmSent,
                           userSent, response, nResponses>>
       ELSE IF LoopContinues(<<>>, 0, 0)
            THEN /\ pc' = "page"
                 /\ sentCursors' = Append(sentCursors, 0)
                 /\ upstreamCalls' = Append(upstreamCalls, "scores")
                 /\ UNCHANGED <<scores, finalScores, sliced, bmSent, userSent,
                                response, nResponses>>
            ELSE /\ Finish(<<>>)
                 /\ UNCHANGED sentCursors
    /\ UNCHANGED <<req, cursor, fetchedCount, elapsed, feedLeft, gotCursors, faults>>

\* the name lookup fails: 404
ResolveFails ==
    /\ pc = "resolve"
    /\ faults' = faults \cup {"username"}
    /\ Respond(404, <<>>)
    /\ UNCHANGED <<req, scores, cursor, fetchedCount, elapsed, feedLeft,
                   finalScores, sliced, sentCursors, gotCursors, bmSent, userSent,
                   upstreamCalls>>

ResolveArrives ==
    /\ pc = "resolve"
    /\ pc' = "userScores"
    /\ upstreamCalls' = Append(upstreamCalls, ScoresCall(req))
    /\ UNCHANGED <<req, scores, cursor, fetchedCount, elapsed, feedLeft,
                   finalScores, sliced, sentCursors, gotCursors, bmSent, userSent,
                   response, nResponses, faults>>

\* user mode: the answer to the score list request
UserScoresArrive(resp) ==
    /\ pc = "userScores"
    /\ IF resp.shape = "error"
       THEN /\ faults' = faults \cup {"fetch"}
            /\ Respond(ErrorStatus(RequestMessage), <<>>)
            /\ UNCHANGED <<scores, finalScores, sliced, bmSent, userSent,
                           upstreamCalls>>
       ELSE IF resp.shape # "array"
       THEN \* scores = data; normalizeAndFilter calls scores.map: a TypeError
            /\ faults' = faults \cup {"shape"}
            /\ Respond(ErrorStatus(TypeMessage), <<>>)
            /\ UNCHANGED <<scores, finalScores, sliced, bmSent, userSent,
                           upstreamCalls>>
       ELSE /\ Finish(normalizeAndFilter(resp.page, req.min_pp, req.max_pp, req.mods))
            /\ UNCHANGED faults
    /\ UNCHANGED <<req, cursor, fetchedCount, elapsed, feedLeft, sentCursors,
                   gotCursors>>

\* global mode: the answer to the page request in flight, the rest of the
\* loop body, and either the next page request or the end of the loop
PageArrives(resp) ==
    /\ pc = "page"
    /\ LET el == elapsed + resp.delay
           \* cursor = data.cursor_string, only when data.scores is truthy
           cur == IF resp.shape \in {"wrapped", "badscores"}
                  THEN resp.cursor_string ELSE cursor
           batchScores == IF resp.shape \in {"wrapped", "array"} THEN resp.page ELSE <<>>
           fc == fetchedCount + Len(batchScores)
       IN  \E sc \in {scores \o normalizeAndFilter(batchScores, req.min_pp,
                                                   req.max_pp, req.mods)} :
           /\ elapsed' = el
           /\ feedLeft' = IF resp.shape \in {"wrapped", "array"} /\ resp.page # <<>>
                             /\ resp.page # BulkPage
                          THEN feedLeft - 1 ELSE feedLeft
           /\ gotCursors' = Append(gotCursors,
                                   IF resp.shape \in {"wrapped", "badscores"}
                                   THEN resp.cursor_string ELSE 0)
           /\ IF resp.shape = "error"
              THEN \* axios throws: catch, break
                   /\ UNCHANGED <<cursor, fetchedCount, sentCursors>>
                   /\ Finish(scores)
              ELSE IF resp.shape = "badscores"
              THEN \* length is undefined: fetchedCount becomes NaN (-1 here),
                   \* then batchScores.map throws: catch, break
                   /\ cursor' = cur
                   /\ fetchedCount' = -1
                   /\ UNCHANGED sentCursors
                   /\ Finish(scores)
              ELSE IF Len(batchScores) = 0
              THEN /\ cursor' = cur
                   /\ UNCHANGED <<fetchedCount, sentCursors>>
                   /\ Finish(scores)
              ELSE /\ cursor' = cur
                   /\ fetchedCount' = fc
                   /\ IF (cur = 0 /\ ~resp.cursor) \/ ~LoopContinues(sc, fc, el)
                      THEN /\ UNCHANGED sentCursors
                           /\ Finish(sc)
                      ELSE /\ pc' = "page"
                           /\ scores' = sc
                           /\ sentCursors' = Append(sentCursors, cur)
                           /\ upstreamCalls' = Append(upstreamCalls, "scores")
                           /\ UNCHANGED <<finalScores, sliced, bmSent, userSent,
                                          response, nResponses>>
    /\ faults' = IF resp.shape = "error" THEN faults \cup {"page"}
                 ELSE IF resp.shape \in {"other", "badscores"}
                 THEN faults \cup {"shape"} ELSE faults
    /\ UNCHANGED req

\* the answer to the beatmap lookup; then the user lookup or the response
BeatmapsArrive(resp) ==
    /\ pc = "beatmaps"
    /\ \E fs \in {EnrichBeatmaps(finalScores, resp)}, uids \in {userIds(sliced)} :
           /\ finalScores' = fs
           /\ IF Len(uids) > 0
              THEN /\ pc' = "users"
                   /\ userSent' = Append(userSent, LookupIds(uids))
                   /\ upstreamCalls' = Append(upstreamCalls, "users")
                   /\ UNCHANGED <<response, nResponses>>
              ELSE /\ Respond(200, fs)
                   /\ UNCHANGED <<userSent, upstreamCalls>>
    /\ faults' = IF resp.ok THEN faults ELSE faults \cup {"beatmaps"}
    /\ UNCHANGED <<req, scores, cursor, fetchedCount, elapsed, feedLeft, sliced,
                   sentCursors, gotCursors, bmSent>>

\* the answer to the user lookup; then the response
UsersArrive(resp) ==
    /\ pc = "users"
    /\ \E fs \in {EnrichUsers(finalScores, resp)} :
           /\ finalScores' = fs
           /\ Respond(200, fs)
    /\ faults' = IF resp.ok THEN faults ELSE faults \cup {"users"}
    /\ UNCHANGED <<req, scores, cursor, fetchedCount, elapsed, feedLeft, sliced,
                   sentCursors, gotCursors, bmSent, userSent, upstreamCalls>>

Next ==
    \/ \E r \in Requests : Receive(r)
    \/ TokenFails
    \/ TokenArrives
    \/ ResolveFails
    \/ ResolveArrives
    \/ \E resp \in UserScoresResponses : UserScoresArrive(resp)
    \/ \E resp \in GlobalResponses : PageArrives(resp)
    \/ \E resp \in BeatmapResponses : BeatmapsArrive(resp)
    \/ \E resp \in UserResponses : UsersArrive(resp)

Spec == Init /\ [][Next]_vars

\* every upstream call returns (with an answer or an error) and the handler
\* then runs to its next await
FairSpec == Spec /\ WF_vars(Next)

(***************************************************************************)
(* Properties                                                              *)
(***************************************************************************)
Done == pc = "done"
Success == pc = "done" /\ response.status = 200

\* a bound of the request, as a number, when the request gives one
Given(bound) == bound.t \in {"num", "numstr"}

\* pp lies within [min_pp, max_pp]
InRange(pp, min_pp, max_pp) ==
    /\ Given(min_pp) => pp.t = "num" /\ pp.v >= min_pp.v
    /\ Given(max_pp) => pp.t = "num" /\ pp.v <= max_pp.v

HasMods(score, mods) ==
    score.mods.t = "strs" /\ Range(mods) \subseteq Range(score.mods.v)

DescendingByDate(list) ==
    \A i, j \in 1..Len(list) :
        i < j /\ ValidDate(list[i]) /\ ValidDate(list[j])
            => list[i].created_at >= list[j].created_at

\* C1: a successful global-mode response holds only records whose pp lies in
\* [min_pp, max_pp] and whose mods include every required mod, ordered by
\* created_at descending, and at most limit records (10 without a limit).
C1_GlobalResultFiltered ==
    Success /\ ~UserMode(req) =>
        /\ \A i \in 1..Len(response.body) :
              /\ InRange(response.body[i].pp, req.min_pp, req.max_pp)
              /\ HasMods(response.body[i], req.mods)
        /\ DescendingByDate(response.body)
        /\ Len(response.body) <= (IF req.limit >= 1 THEN req.limit ELSE 10)

\* C5: normalizing a record the handler has already normalized leaves its
\* created_at, mods and pp as they are.
C5_NormalizeIdempotent ==
    \A i \in 1..Len(scores) :
        LET again == Normalize(scores[i])
        IN  /\ again.created_at = scores[i].created_at
            /\ again.mods = scores[i].mods
            /\ again.pp = scores[i].pp

\* number of chunks of at most 50 that n ids need
Chunks(n) == (n + lookupCap - 1) \div lookupCap

AllSent(ids, requests) ==
    /\ Len(requests) = Chunks(Len(ids))
    /\ \A k \in 1..Len(requests) : Len(requests[k]) <= lookupCap
    /\ \A i \in 1..Len(ids) : \E k \in 1..Len(requests) : ids[i] \in Range(requests[k])

\* C6: the ids needed for enrichment are split into chunks of at most 50, one
\* request per chunk, and every needed id is sent in some request.
C6_EveryNeededIdSent ==
    Success =>
        /\ AllSent(beatmapIds(sliced), bmSent)
        /\ AllSent(userIds(sliced), userSent)

\* C7: a score fetch whose body has an unexpected shape counts as zero
\* results: the request still ends with a success response, in both modes.
C7_MalformedBodyIsNoFailure ==
    Done /\ "shape" \in faults => response.status = 200

\* C10: the first page request carries no continuation token and every later
\* one carries the token the immediately preceding response returned.
C10_CursorChain ==
    \A k \in 1..Len(sentCursors) :
        IF k = 1 THEN sentCursors[k] = 0
        ELSE /\ gotCursors[k - 1] # 0
             /\ sentCursors[k] = gotCursors[k - 1]

C2_Inv ==
    /\ nResponses = (IF Done THEN 1 ELSE 0)
    /\ Done =>
        /\ response.status \in {200, 400, 401, 404, 500}
        /\ response.status = 400 <=> ~req.credentials
        /\ response.status = 400 => upstreamCalls = <<>>
        /\ response.status = 401 <=> req.credentials /\ "credentials" \in faults
        /\ response.status = 404 <=> "username" \in faults
        /\ "fetch" \in faults => response.status = 500
        /\ response.status = 500 => faults \cap {"fetch", "shape"} # {}
        /\ response.status = 200 => response.body = finalScores

\* C2: every request ends in exactly one response; its status is 400 when the
\* credentials are missing (before any upstream call), 401 when the credential
\* exchange fails, 404 when the name lookup fails, 500 for another failure and
\* a success carrying the records otherwise.
C2_StatusByFailureKind == []C2_Inv /\ <>Done

C2_Witness == Done /\ response.status = 401 /\ nResponses = 1 /\ upstreamCalls # <<>>

C3_Safety ==
    /\ pc = "page" =>
        /\ Len(scores) < targetLimit(req)
        /\ fetchedCount < maxFetch
        /\ elapsed <= timeLimit
    /\ Done /\ (fetchedCount >= maxFetch \/ elapsed > timeLimit) =>
        /\ response.status = 200
        /\ Len(response.body) = Min(Len(scores), targetLimit(req))
        /\ \A i \in 1..Len(response.body) : response.body[i].id = scores[i].id

\* C3: in global mode no page is requested once the matches reach the limit,
\* the fetched count reaches 10000 or the 25 s budget is exceeded; the loop
\* always ends, and a stop by the budget or the ceiling gives a success
\* response with the matches accumulated so far.
C3_LoopStops == []C3_Safety /\ (pc = "page" ~> Success)

C3_Witness ==
    /\ Success
    /\ fetchedCount >= maxFetch
    /\ elapsed <= timeLimit
    /\ response.body # <<>>

\* C4: every id sent in a lookup belongs to a record of the truncated final
\* result that lacks the field; the truncated result is the head of the sorted
\* filtered list and the response holds exactly its records.
C4_EnrichOnlyTruncated ==
    /\ Len(sliced) <= targetLimit(req)
    /\ \A i \in 1..Len(sliced) :
          /\ sliced[i] = scores[i]
          /\ Passes(sliced[i], req.min_pp, req.max_pp, req.mods)
    /\ \A k \in 1..Len(bmSent) : \A id \in Range(bmSent[k]) :
          \E i \in 1..Len(sliced) : LacksBeatmap(sliced[i]) /\ sliced[i].beatmap_id = id
    /\ \A k \in 1..Len(userSent) : \A id \in Range(userSent[k]) :
          \E i \in 1..Len(sliced) : LacksUser(sliced[i]) /\ sliced[i].user_id = id
    /\ Success =>
          /\ Len(response.body) = Len(sliced)
          /\ \A i \in 1..Len(sliced) : response.body[i].id = sliced[i].id

C4_Witness ==
    /\ Success
    /\ bmSent # <<>>
    /\ \E i \in (Len(sliced) + 1)..Len(scores) :
          /\ LacksBeatmap(scores[i])
          /\ \A k \in 1..Len(bmSent) : scores[i].beatmap_id \notin Range(bmSent[k])

\* C8: a beatmap, beatmapset or user field that is populated before the
\* enrichment holds the same value in the response.
C8_NoOverwrite ==
    /\ \A i \in 1..Len(finalScores) :
          /\ Has(sliced[i].beatmap) => finalScores[i].beatmap = sliced[i].beatmap
          /\ Has(sliced[i].beatmapset) => finalScores[i].beatmapset = sliced[i].beatmapset
          /\ Has(sliced[i].user) => finalScores[i].user = sliced[i].user
    /\ Success =>
          \A i \in 1..Len(response.body) :
              /\ Has(sliced[i].beatmap) => response.body[i].beatmap = sliced[i].beatmap
              /\ Has(sliced[i].beatmapset) =>
                    response.body[i].beatmapset = sliced[i].beatmapset
              /\ Has(sliced[i].user) => response.body[i].user = sliced[i].user

\* a record with its own beatmapset got a fetched beatmap that embeds another
C8_Witness ==
    /\ Success
    /\ \E i \in 1..Len(response.body) :
          /\ Has(sliced[i].beatmapset)
          /\ ~Has(sliced[i].beatmap)
          /\ response.body[i].beatmap.tag = "fetched"
          /\ response.body[i].beatmap.set # 0
          /\ response.body[i].beatmap.set # sliced[i].beatmapset.id

SameButEnrichment(a, b) ==
    [a EXCEPT !.beatmap = b.beatmap, !.beatmapset = b.beatmapset, !.user = b.user] = b

\* C9: a failed beatmap or user lookup leaves the request a success with the
\* same records in the same order, the records of the failed lookup lacking
\* the field, and a failed beatmap lookup does not prevent the user lookup.
C9_LookupFailureIsolated ==
    /\ Done /\ faults \cap {"beatmaps", "users"} # {} => response.status = 200
    /\ Success =>
          /\ Len(response.body) = Len(sliced)
          /\ \A i \in 1..Len(sliced) : SameButEnrichment(response.body[i], sliced[i])
    /\ Success /\ "beatmaps" \in faults =>
          \A i \in 1..Len(sliced) :
              /\ response.body[i].beatmap = sliced[i].beatmap
              /\ response.body[i].beatmapset = sliced[i].beatmapset
    /\ Success /\ "users" \in faults =>
          \A i \in 1..Len(sliced) : response.body[i].user = sliced[i].user
    /\ Done /\ "beatmaps" \in faults /\ userIds(sliced) # <<>> => userSent # <<>>

C9_Witness ==
    /\ Success
    /\ {"beatmaps", "users"} \subseteq faults
    /\ \E i \in 1..Len(response.body) :
          LacksBeatmap(response.body[i]) /\ LacksUser(response.body[i])

====
